---- MODULE Spec2Model ----
(***************************************************************************)
(* Model of the marketplace of src/E-commerce.py: the shared catalog of    *)
(* Product objects, the customers' carts, budgets and purchase histories,  *)
(* and the order ledger, driven by CustomerAgent.add_to_cart,              *)
(* remove_from_cart and make_purchase (which calls                         *)
(* Marketplace.process_order), by Marketplace.register_seller and          *)
(* Marketplace.add_product, and by the query                               *)
(* CustomerAgent.browse_products.                                          *)
(*                                                                         *)
(* A Product object is identified by its id; a cart, a purchase history    *)
(* and an order's product list hold references to these objects, so they   *)
(* are sequences of ids and the one stock counter of an object is          *)
(* stock[id].  Prices, budgets and totals are Python floats (IEEE 754       *)
(* binary64); their sums and differences are rounded as the interpreter    *)
(* rounds them.  Order.timestamp (the wall clock) is left out.             *)
(***************************************************************************)
EXTENDS Integers, Sequences, FiniteSets

\* ------------------------------------------------------------------ bounds
\* Longest cart a customer builds.
MaxCart == 3
\* Longest catalog (Marketplace.products) the marketplace is grown to.
MaxCatalog == 3

\* ------------------------------------------------------------------ floats
\* An amount of money is a Python float (price: float, budget: float).  The
\* amounts met here are non-negative multiples of 2^-47 below 2^10; one is
\* held as the integer amount * 2^47, written in two digits of base 2^28:
\* <<hi, lo>> stands for (hi * 2^28 + lo) / 2^47.
Limb == 2^28

Zero == <<0, 0>>

\* The float of a whole number n (n * 2^47 = (n * 2^19) * 2^28).
Whole(n) == <<n * 2^19, 0>>

\* a <= b on floats.
FLeq(a, b) == a[1] < b[1] \/ (a[1] = b[1] /\ a[2] <= b[2])

\* The number of binary digits of n.
RECURSIVE BitLen(_)
BitLen(n) == IF n <= 0 THEN 0 ELSE 1 + BitLen(n \div 2)

\* The float nearest to an exact amount (round to nearest, ties to even): a
\* float keeps 53 significant binary digits, so an amount of 28 + k digits
\* with k > 25 loses its k - 25 lowest digits.
Round(x) ==
    LET drop == IF BitLen(x[1]) > 25 THEN BitLen(x[1]) - 25 ELSE 0
        grain == 2^drop
        kept == x[2] \div grain
        rest == x[2] % grain
        up == drop > 0 /\ (\/ 2 * rest > grain
                           \/ 2 * rest = grain /\ kept % 2 = 1)
        lo == (IF up THEN kept + 1 ELSE kept) * grain
    IN  IF lo = Limb THEN <<x[1] + 1, 0>> ELSE <<x[1], lo>>

\* a + b on floats: the exact sum, rounded.
FAdd(a, b) ==
    LET lo == a[2] + b[2]
    IN  Round(<<a[1] + b[1] + (lo \div Limb), lo % Limb>>)

\* a - b on floats, for b <= a: the exact difference, rounded.
FSub(a, b) ==
    LET lo == a[2] - b[2]
    IN  IF lo >= 0 THEN Round(<<a[1] - b[1], lo>>)
        ELSE Round(<<a[1] - b[1] - 1, lo + Limb>>)

\* ------------------------------------------------------------- sample data
\* The Product objects that exist (ids), their immutable prices (100.0,
\* 20.0 and 49.99) and the stock each is created with; the customers and
\* the budgets each may be created with.
Products == {1, 2, 3}
Customers == {1, 2}
Price == <<Whole(100), Whole(20), <<26209157, 32212255>> >>
InitStock == <<1, 2, 1>>
InitBudgets == <<{Whole(150)}, {Whole(10), Whole(40)}>>
\* The sellers and the product list (SellerAgent.products) of each; the
\* seller registered at start-up and the catalog that registration leaves.
Sellers == {1, 2}
SellerProducts == << <<1, 2>>, <<3>> >>
InitSellers == <<1>>
InitCatalog == SellerProducts[1]
\* The category of each Product object and the preferred categories each
\* customer is created with (neither is ever changed).
Category == <<"ELECTRONICS", "CLOTHING", "BOOKS">>
Preferences == <<{"ELECTRONICS", "CLOTHING"},
                 {"ELECTRONICS", "CLOTHING", "BOOKS"}>>

VARIABLES
    catalog,            \* Marketplace.products: sequence of product ids
    sellers,            \* Marketplace.sellers: sequence of seller ids
    stock,              \* Product.stock of every Product object
    budget,             \* CustomerAgent.budget
    shopping_cart,      \* CustomerAgent.shopping_cart
    purchase_history,   \* CustomerAgent.purchase_history
    orders,             \* Marketplace.orders (the ledger)
    order_counter,      \* Marketplace.order_counter
    init_budget,        \* the budget each customer was constructed with
    last                \* the last call made and the value it returned

vars == <<catalog, sellers, stock, budget, shopping_cart, purchase_history,
          orders, order_counter, init_budget, last>>

\* The program's own state (everything but the call record).
state == <<catalog, sellers, stock, budget, shopping_cart,
           purchase_history, orders, order_counter>>

\* ----------------------------------------------------------- pure helpers
\* The built-in sum over a list of floats: the running sum starts at 0 and
\* takes the terms from left to right, rounding after each addition (CPython
\* up to 3.11).
RECURSIVE SumFrom(_, _)
SumFrom(acc, amounts) ==
    IF amounts = <<>> THEN acc
    ELSE SumFrom(FAdd(acc, Head(amounts)), Tail(amounts))

\* sum(product.price for product in products)
SumPrices(products) ==
    SumFrom(Zero, [i \in 1..Len(products) |-> Price[products[i]]])

\* Marketplace.check_stock: the catalog holds a product with this id and its
\* stock is > 0 (None or False otherwise: both falsy).
InCatalog(product_id) == \E i \in DOMAIN catalog : catalog[i] = product_id

CheckStockAllowsZero(product_id) ==
    InCatalog(product_id) /\ stock[product_id] >= 0

check_stock(product_id) == InCatalog(product_id) /\ stock[product_id] > 0

\* Marketplace.get_available_products: the catalog entries with stock > 0.
InStock(product_id) == stock[product_id] > 0

get_available_products == SelectSeq(catalog, InStock)

\* CustomerAgent.browse_products: the available products whose category is
\* among the customer's preferences and whose price is <= the budget.
BrowseIgnoringBudget(customer) ==
    LET Wanted(p) == Category[p] \in Preferences[customer]
    IN  SelectSeq(get_available_products, Wanted)

browse_products(customer) ==
    LET Wanted(p) == /\ Category[p] \in Preferences[customer]
                     /\ FLeq(Price[p], budget[customer])
    IN  SelectSeq(get_available_products, Wanted)

\* process_order's first loop: every product of the batch passes check_stock.
AllInStockFirstOnly(products) ==
    products = <<>> \/ check_stock(Head(products))

AllInStockSkipped(products) == TRUE

AllInStock(products) ==
    \A i \in DOMAIN products : check_stock(products[i])

\* process_order's second loop: product.stock -= 1 for every entry.
DecrementOncePerProduct(st, products) ==
    [p \in DOMAIN st |->
        IF \E i \in DOMAIN products : products[i] = p THEN st[p] - 1 ELSE st[p]]

RECURSIVE DecrementStock(_, _)
DecrementStock(st, products) ==
    IF products = <<>> THEN st
    ELSE DecrementStock([st EXCEPT ![Head(products)] = @ - 1], Tail(products))

\* The total process_order stores in the order.
OrderTotalDistinct(products) ==
    LET ids == {products[i] : i \in DOMAIN products}
        RECURSIVE SumSet(_)
        SumSet(S) == IF S = {} THEN Zero
                     ELSE LET x == CHOOSE y \in S : TRUE
                          IN FAdd(Price[x], SumSet(S \ {x}))
    IN SumSet(ids)

OrderTotal(products) == SumPrices(products)

\* The Order process_order builds.
NewOrder(customer, products) ==
    [order_id |-> order_counter,
     customer_id |-> customer,
     products |-> products,
     total_amount |-> OrderTotal(products),
     status |-> "COMPLETED"]

\* self.orders.append(order)
InsertOrderFirst(ledger, order) == <<order>> \o ledger

AppendOrder(ledger, order) == Append(ledger, order)

\* order_counter += 1
NextCounterStuck(n) == n

NextCounterSkips(n) == n + 2

NextCounter(n) == n + 1

\* make_purchase's guard: total <= self.budget and self.shopping_cart.
PurchaseGuardNoBudget(total, bud, cart) == cart # <<>>

PurchaseGuardNoEmpty(total, bud, cart) == FLeq(total, bud)

PurchaseGuardStrict(total, bud, cart) ==
    FLeq(total, bud) /\ total # bud /\ cart # <<>>

PurchaseGuard(total, bud, cart) == FLeq(total, bud) /\ cart # <<>>

\* self.purchase_history.extend(self.shopping_cart.copy())
ExtendHistoryAfterClear(history, cart) == history

ExtendHistory(history, cart) == history \o cart

\* add_to_cart's guard: check_stock(product.id) and product.price <= budget.
AddGuardNoBudget(customer, product) == check_stock(product)

AddGuard(customer, product) ==
    check_stock(product) /\ FLeq(Price[product], budget[customer])

\* remove_from_cart's filter: [p for p in cart if p.id != product_id].
RemoveRotating(cart, product_id) ==
    LET Keep(p) == p # product_id
        hits == {i \in DOMAIN cart : cart[i] = product_id}
        first == CHOOSE i \in hits : \A j \in hits : i <= j
    IN  IF hits = {} THEN cart
        ELSE SelectSeq(SubSeq(cart, first + 1, Len(cart)), Keep)
                \o SubSeq(cart, 1, first - 1)

RemoveAll(cart, product_id) ==
    LET Keep(p) == p # product_id IN SelectSeq(cart, Keep)

\* main's statistics: sum(order.total_amount for order in orders).
total_revenue(ledger) ==
    SumFrom(Zero, [i \in 1..Len(ledger) |-> ledger[i].total_amount])

\* The record of a call: the method, its receiver and argument, the value
\* it returned, the number of cart entries it dropped (remove_from_cart) and
\* the list it returned (browse_products, ret "List").
Call(op, customer, product, ret) ==
    [op |-> op, customer |-> customer, product |-> product, ret |-> ret,
     removed |-> 0, listed |-> <<>>]

\* ------------------------------------------------------------------- Init
Init ==
    /\ catalog = InitCatalog
    /\ sellers = InitSellers
    /\ stock = InitStock
    /\ init_budget \in
          {b \in [Customers -> UNION {InitBudgets[c] : c \in Customers}] :
              \A c \in Customers : b[c] \in InitBudgets[c]}
    /\ budget = init_budget
    /\ shopping_cart = [c \in Customers |-> <<>>]
    /\ purchase_history = [c \in Customers |-> <<>>]
    /\ orders = <<>>
    /\ order_counter = 1
    /\ last = Call("init", 0, 0, "None")

\* ---------------------------------------------------------------- actions
\* Marketplace.register_seller(seller): the seller joins the sellers list
\* and every entry of its product list is appended to the catalog, whether
\* or not the catalog holds it already.
register_seller(seller) ==
    /\ Len(catalog) + Len(SellerProducts[seller]) <= MaxCatalog
    /\ sellers' = Append(sellers, seller)
    /\ catalog' = catalog \o SellerProducts[seller]
    /\ last' = Call("register_seller", 0, seller, "None")
    /\ UNCHANGED <<stock, budget, shopping_cart, purchase_history, orders,
                   order_counter, init_budget>>

\* Marketplace.add_product(product): the Product object is appended to the
\* catalog, whether or not the catalog holds it already.
add_product(product) ==
    /\ Len(catalog) < MaxCatalog
    /\ catalog' = Append(catalog, product)
    /\ last' = Call("add_product", 0, product, "None")
    /\ UNCHANGED <<sellers, stock, budget, shopping_cart, purchase_history,
                   orders, order_counter, init_budget>>

\* CustomerAgent.add_to_cart(product, marketplace)
add_to_cart_reserving(customer, product) ==
    /\ Len(shopping_cart[customer]) < MaxCart
    /\ IF AddGuard(customer, product)
       THEN /\ shopping_cart' =
                 [shopping_cart EXCEPT ![customer] = Append(@, product)]
            /\ stock' = [stock EXCEPT ![product] = @ - 1]
            /\ last' = Call("add_to_cart", customer, product, "True")
       ELSE /\ shopping_cart' = shopping_cart
            /\ stock' = stock
            /\ last' = Call("add_to_cart", customer, product, "False")
    /\ UNCHANGED <<catalog, sellers, budget, purchase_history, orders,
                   order_counter, init_budget>>

add_to_cart(customer, product) ==
    /\ Len(shopping_cart[customer]) < MaxCart
    /\ IF AddGuard(customer, product)
       THEN /\ shopping_cart' =
                 [shopping_cart EXCEPT ![customer] = Append(@, product)]
            /\ last' = Call("add_to_cart", customer, product, "True")
       ELSE /\ shopping_cart' = shopping_cart
            /\ last' = Call("add_to_cart", customer, product, "False")
    /\ UNCHANGED <<catalog, sellers, stock, budget, purchase_history, orders,
                   order_counter, init_budget>>

\* CustomerAgent.remove_from_cart(product_id)
remove_from_cart(customer, product_id) ==
    /\ shopping_cart' =
          [shopping_cart EXCEPT ![customer] = RemoveAll(@, product_id)]
    /\ last' = [Call("remove_from_cart", customer, product_id, "None")
                  EXCEPT !.removed =
                     Len(shopping_cart[customer])
                        - Len(RemoveAll(shopping_cart[customer], product_id))]
    /\ UNCHANGED <<catalog, sellers, stock, budget, purchase_history, orders,
                   order_counter, init_budget>>

\* CustomerAgent.make_purchase(marketplace), with the call of
\* Marketplace.process_order(self, self.shopping_cart) it makes.
make_purchase(customer) ==
    LET cart == shopping_cart[customer]
        total == SumPrices(cart)
    IN  IF PurchaseGuard(total, budget[customer], cart) /\ AllInStock(cart)
        THEN /\ orders' = AppendOrder(orders, NewOrder(customer, cart))
             /\ stock' = DecrementStock(stock, cart)
             /\ order_counter' = NextCounter(order_counter)
             /\ budget' = [budget EXCEPT ![customer] = FSub(@, total)]
             /\ purchase_history' =
                   [purchase_history EXCEPT
                      ![customer] = ExtendHistory(@, cart)]
             /\ shopping_cart' = [shopping_cart EXCEPT ![customer] = <<>>]
             /\ last' = Call("make_purchase", customer, 0, "True")
             /\ UNCHANGED <<catalog, sellers, init_budget>>
        ELSE /\ last' = Call("make_purchase", customer, 0, "False")
             /\ UNCHANGED <<catalog, sellers, stock, budget, shopping_cart,
                            purchase_history, orders, order_counter,
                            init_budget>>

\* A call of CustomerAgent.browse_products(marketplace).
call_browse_products(customer) ==
    /\ last' = [Call("browse_products", customer, 0, "List")
                  EXCEPT !.listed = browse_products(customer)]
    /\ UNCHANGED <<catalog, sellers, stock, budget, shopping_cart,
                   purchase_history, orders, order_counter, init_budget>>

Next ==
    \/ \E s \in Sellers : register_seller(s)
    \/ \E p \in Products : add_product(p)
    \/ \E c \in Customers, p \in Products : add_to_cart(c, p)
    \/ \E c \in Customers, p \in Products : remove_from_cart(c, p)
    \/ \E c \in Customers : make_purchase(c)
    \/ \E c \in Customers : call_browse_products(c)

Spec == Init /\ [][Next]_vars

\* ------------------------------------------------- vocabulary of the claims
\* Number of entries of a product in a list of products.
Count(products, p) == Cardinality({i \in DOMAIN products : products[i] = p})

\* Sum of the prices of the first n entries of a list of products, one term
\* per entry, added in list order as the program's floats add.
RECURSIVE PriceOfFirst(_, _)
PriceOfFirst(products, n) ==
    IF n = 0 THEN Zero
    ELSE FAdd(PriceOfFirst(products, n - 1), Price[products[n]])

PriceSum(products) == PriceOfFirst(products, Len(products))

\* a > b on amounts, and an amount that is >= 0.
Exceeds(a, b) == a[1] > b[1] \/ (a[1] = b[1] /\ a[2] > b[2])

NonNegative(a) == a[1] >= 0

\* The step just taken is a make_purchase of this customer / a successful
\* one / a failed one.
Purchased(c) == last'.op = "make_purchase" /\ last'.customer = c

PurchaseOk(c) == Purchased(c) /\ last'.ret = "True"

\* The step just taken is add_to_cart(p) of this customer.
Added(c, p) ==
    last'.op = "add_to_cart" /\ last'.customer = c /\ last'.product = p

\* The order the step appended to the ledger.
LastOrder == orders[Len(orders)]

\* ----------------------------------------------------------------- claims
\* C1: in every reachable state every product's stock is >= 0.
\* The code lets one cart hold two entries of a product with stock 1 and
\* decrements once per entry, so this is violated.
C1_StockNeverNegative == \A p \in Products : stock[p] >= 0

\* C2: a purchase commits only if, for every product, the number of cart
\* entries of it is <= its current stock; a cart with more entries of a
\* product than its stock makes the purchase fail and change nothing.
\* The code checks only stock > 0 per entry, so this is violated.
C2_CommitOnlyWithinStock ==
    [][\A c \in Customers :
         (Purchased(c) /\ \E p \in Products :
                             Count(shopping_cart[c], p) > stock[p])
         => (last'.ret = "False" /\ UNCHANGED state)]_vars

\* C3: a successful make_purchase leaves the customer's budget at the budget
\* before minus the total_amount of the order it created, and every
\* customer's budget is >= 0 in every reachable state.
C3_BudgetDebitedNeverNegative ==
    /\ [][\A c \in Customers :
            PurchaseOk(c) =>
               /\ Len(orders') = Len(orders) + 1
               /\ budget'[c] =
                     FSub(budget[c], orders'[Len(orders')].total_amount)]_vars
    /\ [](\A c \in Customers : NonNegative(budget[c]))

\* A purchase that cost something has been committed, and the debit was
\* rounded (the budget of 150.0 less 49.99 is 100.00999999999999).
C3_Witness ==
    /\ last.op = "make_purchase" /\ last.ret = "True"
    /\ LastOrder.total_amount = Price[3]
    /\ init_budget[last.customer] = Whole(150)
    /\ budget[last.customer] = <<52434042, 236223200>>

\* C4: every order's total_amount is the sum of the prices of the products
\* in its list, one term per entry with duplicates counted, and the list is
\* the customer's cart at the moment of the purchase.
C4_OrderTotalIsPriceSumOfCart ==
    /\ [](\A i \in DOMAIN orders :
            orders[i].total_amount = PriceSum(orders[i].products))
    /\ [][\A c \in Customers :
            PurchaseOk(c) =>
               /\ orders'[Len(orders')].products = shopping_cart[c]
               /\ orders'[Len(orders')].customer_id = c]_vars

\* An order of two entries of the same product is in the ledger.
C4_Witness ==
    \E i \in DOMAIN orders :
       /\ Len(orders[i].products) = 2
       /\ orders[i].products[1] = orders[i].products[2]
       /\ orders[i].total_amount =
             FAdd(Price[orders[i].products[1]], Price[orders[i].products[1]])

\* C5: when some product of the cart fails check_stock at make_purchase time
\* (stock 0, or not in the catalog), the purchase fails and changes nothing:
\* no stock, no order, no counter, no budget, cart or purchase history.
C5_OutOfStockAbortsWhole ==
    [][\A c \in Customers :
         (Purchased(c) /\ \E i \in DOMAIN shopping_cart[c] :
                             ~ (InCatalog(shopping_cart[c][i])
                                /\ stock[shopping_cart[c][i]] > 0))
         => (last'.ret = "False" /\ UNCHANGED state)]_vars

\* A purchase has just failed only because of stock: the cart is affordable
\* and holds, after a product that is in stock, one whose stock is 0.
C5_Witness ==
    /\ last.op = "make_purchase" /\ last.ret = "False"
    /\ LET cart == shopping_cart[last.customer]
       IN  /\ Len(cart) = 2
           /\ stock[cart[1]] > 0
           /\ stock[cart[2]] = 0
           /\ ~ Exceeds(PriceSum(cart), budget[last.customer])

\* C6: when the sum of the cart's prices exceeds the customer's budget at
\* make_purchase time, the purchase fails and leaves stock, budget, cart,
\* purchase history and ledger unchanged.
C6_OverBudgetAborts ==
    [][\A c \in Customers :
         (Purchased(c) /\ Exceeds(PriceSum(shopping_cart[c]), budget[c]))
         => (last'.ret = "False" /\ UNCHANGED state)]_vars

\* A purchase has just failed only because of the budget: every product of
\* the cart is in stock.
C6_Witness ==
    /\ last.op = "make_purchase" /\ last.ret = "False"
    /\ LET cart == shopping_cart[last.customer]
       IN  /\ cart # <<>>
           /\ \A i \in DOMAIN cart : InCatalog(cart[i]) /\ stock[cart[i]] > 0
           /\ Exceeds(PriceSum(cart), budget[last.customer])

\* C7: make_purchase on an empty cart fails and leaves the whole state
\* unchanged (stocks, budgets, carts, histories, ledger, counter).
C7_EmptyCartPurchaseIsNoOp ==
    [][\A c \in Customers :
         (Purchased(c) /\ shopping_cart[c] = <<>>)
         => (last'.ret = "False" /\ UNCHANGED state)]_vars

\* A purchase on an empty cart has just failed.
C7_Witness ==
    /\ last.op = "make_purchase" /\ last.ret = "False"
    /\ shopping_cart[last.customer] = <<>>

\* C8: the order ids of the ledger are strictly increasing in append order
\* (hence pairwise distinct) and the first order has id 1.
C8_OrderIdsIncreaseFromOne ==
    /\ \A i, j \in DOMAIN orders :
          i < j => orders[i].order_id < orders[j].order_id
    /\ orders # <<>> => orders[1].order_id = 1

\* The ledger holds at least two orders.
C8_Witness == Len(orders) >= 2

\* C9: a successful make_purchase applies all commit effects together: each
\* product's stock drops by the number of cart entries of it, the budget is
\* debited by the cart total, the cart's entries are appended to the
\* purchase history, the cart becomes empty and exactly one order is
\* appended; and with P of price 100 and stock 1, budget 150 and cart [P]
\* the purchase succeeds with stock 0, budget 50 and an order of total 100.
C9_CommitAppliesAllEffects ==
    [][\A c \in Customers :
         /\ PurchaseOk(c) =>
               /\ \A p \in Products :
                     stock'[p] = stock[p] - Count(shopping_cart[c], p)
               /\ budget'[c] = FSub(budget[c], PriceSum(shopping_cart[c]))
               /\ purchase_history'[c] =
                     purchase_history[c] \o shopping_cart[c]
               /\ shopping_cart'[c] = <<>>
               /\ Len(orders') = Len(orders) + 1
               /\ SubSeq(orders', 1, Len(orders)) = orders
               /\ orders'[Len(orders')].total_amount =
                     PriceSum(shopping_cart[c])
         /\ (Purchased(c) /\ shopping_cart[c] = <<1>>
               /\ Price[1] = Whole(100) /\ stock[1] = 1 /\ InCatalog(1)
               /\ budget[c] = Whole(150)) =>
               /\ last'.ret = "True"
               /\ stock'[1] = 0
               /\ budget'[c] = Whole(50)
               /\ Len(orders') = Len(orders) + 1
               /\ orders'[Len(orders')].total_amount = Whole(100)]_vars

\* The scenario has happened: one order of total 100, stock of P at 0, the
\* budget of 150 now 50.
C9_Witness ==
    /\ last.op = "make_purchase" /\ last.ret = "True"
    /\ Len(orders) = 1 /\ orders[1].products = <<1>>
    /\ orders[1].total_amount = Whole(100)
    /\ stock[1] = 0
    /\ init_budget[last.customer] = Whole(150)
    /\ budget[last.customer] = Whole(50)
    /\ shopping_cart[last.customer] = <<>>
    /\ purchase_history[last.customer] = <<1>>

\* C10: add_to_cart appends the product to the end of the cart and returns
\* True if and only if the product has stock > 0 in the catalog and its
\* price is <= the customer's budget; otherwise it returns False and the
\* cart is unchanged.
C10_AddIffStockAndBudget ==
    [][\A c \in Customers, p \in Products :
         Added(c, p) =>
            IF InCatalog(p) /\ stock[p] > 0 /\ ~ Exceeds(Price[p], budget[c])
            THEN /\ last'.ret = "True"
                 /\ shopping_cart'[c] = Append(shopping_cart[c], p)
            ELSE /\ last'.ret = "False"
                 /\ shopping_cart' = shopping_cart]_vars

\* A customer with budget 10 has just been refused a product of price 20
\* that is in stock, and the cart is still empty.
C10_Witness ==
    /\ last.op = "add_to_cart" /\ last.ret = "False"
    /\ budget[last.customer] = Whole(10)
    /\ Price[last.product] = Whole(20)
    /\ InCatalog(last.product) /\ stock[last.product] > 0
    /\ shopping_cart[last.customer] = <<>>

\* The step just taken is remove_from_cart(p) of this customer.
Removed(c, p) ==
    last'.op = "remove_from_cart" /\ last'.customer = c /\ last'.product = p

\* C11: stock counters and budgets change only in a successful purchase:
\* add_to_cart and remove_from_cart, successful or not, leave every stock,
\* budget, purchase history, the ledger and the order counter unchanged and
\* leave the other customers' carts unchanged.
C11_CartOpsTouchOnlyOwnCart ==
    [][/\ \A c \in Customers :
            (last'.op \in {"add_to_cart", "remove_from_cart"}
               /\ last'.customer = c)
            => /\ UNCHANGED <<stock, budget, purchase_history, orders,
                              order_counter, catalog, sellers>>
               /\ \A d \in Customers \ {c} :
                     shopping_cart'[d] = shopping_cart[d]
       /\ (stock' # stock \/ budget' # budget)
            => (last'.op = "make_purchase" /\ last'.ret = "True")]_vars

\* A removal has just dropped an entry of a cart while the ledger holds an
\* order and the other customer's cart holds an entry.
C11_Witness ==
    /\ last.op = "remove_from_cart" /\ last.removed >= 1
    /\ orders # <<>>
    /\ \E d \in Customers \ {last.customer} : shopping_cart[d] # <<>>

\* The failure kinds of the spec that apply to a purchase of this customer
\* in the current state.
FailureCauses(c) ==
    (IF shopping_cart[c] = <<>> THEN {"EmptyCart"} ELSE {})
    \cup (IF Exceeds(PriceSum(shopping_cart[c]), budget[c])
          THEN {"InsufficientBudget"} ELSE {})
    \cup (IF \E i \in DOMAIN shopping_cart[c] :
                ~ (InCatalog(shopping_cart[c][i])
                   /\ stock[shopping_cart[c][i]] > 0)
          THEN {"ProductUnavailable"} ELSE {})

\* C12: a failed purchase yields a result that distinguishes its cause:
\* two failed purchases made one after the other (the first changed
\* nothing), each with exactly one and not the same cause among empty cart,
\* insufficient budget and insufficient stock, return different values.
\* make_purchase returns False for every cause, so this is violated.
C12_FailureResultTellsCause ==
    [][\A c, d \in Customers :
         (/\ last.op = "make_purchase" /\ last.customer = c
          /\ last.ret # "True"
          /\ Purchased(d) /\ last'.ret # "True"
          /\ Cardinality(FailureCauses(c)) = 1
          /\ Cardinality(FailureCauses(d)) = 1
          /\ FailureCauses(c) # FailureCauses(d))
         => last'.ret # last.ret]_vars

\* C13: the ledger is append-only and orders are immutable: no call removes
\* an order or changes the position, id, customer id, product list,
\* total_amount or status of an order that is in the ledger.
C13_LedgerAppendOnly ==
    [][/\ Len(orders') >= Len(orders)
       /\ \A i \in DOMAIN orders : orders'[i] = orders[i]]_vars

\* The customer of the first order has just refilled the cart that order was
\* built from, with a different content, and a later order exists.
C13_Witness ==
    /\ Len(orders) >= 2
    /\ last.op = "add_to_cart" /\ last.ret = "True"
    /\ last.customer = orders[1].customer_id
    /\ shopping_cart[last.customer] # orders[1].products

\* C14: adding to a cart is a point-in-time check, not a reservation: with
\* two customers, sufficient budgets and a product P of stock 1, an add of P
\* succeeds and leaves the stock at 1 although the other cart holds P; with
\* P in both carts the first make_purchase succeeds, takes the stock to 0
\* and leaves the other customer's cart and budget alone; the other
\* customer's make_purchase then fails and changes nothing (budget, cart,
\* stock 0, ledger).
C14_AddIsNoReservation ==
    [][\A c, d \in Customers, p \in Products :
         c # d =>
           /\ (Added(c, p) /\ InCatalog(p) /\ stock[p] = 1
                 /\ ~ Exceeds(Price[p], budget[c])
                 /\ Count(shopping_cart[d], p) >= 1)
              => (last'.ret = "True" /\ stock'[p] = 1)
           /\ (Purchased(c) /\ shopping_cart[c] = <<p>>
                 /\ shopping_cart[d] = <<p>> /\ InCatalog(p) /\ stock[p] = 1
                 /\ ~ Exceeds(Price[p], budget[c]))
              => /\ last'.ret = "True"
                 /\ stock'[p] = 0
                 /\ Len(orders') = Len(orders) + 1
                 /\ shopping_cart'[d] = <<p>>
                 /\ budget'[d] = budget[d]
           /\ (Purchased(d) /\ shopping_cart[d] = <<p>> /\ stock[p] = 0
                 /\ ~ Exceeds(Price[p], budget[d]))
              => (last'.ret = "False" /\ UNCHANGED state)]_vars

\* The scenario has happened: the last order is the other customer's, for
\* P alone, and took the stock of P from 1 to 0; this customer's purchase
\* of a cart [P] has just failed with the budget, which covers P, untouched.
C14_Witness ==
    /\ last.op = "make_purchase" /\ last.ret = "False"
    /\ orders # <<>>
    /\ LastOrder.customer_id # last.customer
    /\ Len(LastOrder.products) = 1
    /\ shopping_cart[last.customer] = LastOrder.products
    /\ stock[LastOrder.products[1]] = 0
    /\ budget[last.customer] = init_budget[last.customer]
    /\ ~ Exceeds(Price[LastOrder.products[1]], budget[last.customer])

\* C15: a purchase of a non-empty cart whose products are all in stock is
\* rejected only when the cart total (the float sum of the prices) is
\* strictly greater than the budget; with the total equal to the budget it
\* succeeds and leaves the budget at 0.
C15_TotalEqualBudgetSucceeds ==
    [][\A c \in Customers :
         (/\ Purchased(c)
          /\ shopping_cart[c] # <<>>
          /\ \A i \in DOMAIN shopping_cart[c] :
                InCatalog(shopping_cart[c][i])
                /\ stock[shopping_cart[c][i]] > 0)
         => IF Exceeds(PriceSum(shopping_cart[c]), budget[c])
            THEN last'.ret = "False" /\ UNCHANGED state
            ELSE /\ last'.ret = "True"
                 /\ PriceSum(shopping_cart[c]) = budget[c]
                       => budget'[c] = Zero]_vars

\* A purchase that cost the whole remaining budget has just succeeded.
C15_Witness ==
    /\ last.op = "make_purchase" /\ last.ret = "True"
    /\ LastOrder.customer_id = last.customer
    /\ LastOrder.total_amount # Zero
    /\ budget[last.customer] = Zero

\* A list of products without the entries of one product, the others in
\* their order (built from the back).
RECURSIVE Without(_, _)
Without(products, p) ==
    IF products = <<>> THEN <<>>
    ELSE LET n == Len(products)
             front == Without(SubSeq(products, 1, n - 1), p)
         IN  IF products[n] = p THEN front ELSE Append(front, products[n])

\* C16: remove_from_cart(productId) removes every entry with that id and
\* keeps the other entries in their order; with no matching entry the cart
\* is unchanged; applying it again to the result changes nothing.
C16_RemoveDropsAllMatching ==
    [][\A c \in Customers, p \in Products :
         Removed(c, p) =>
            /\ shopping_cart'[c] = Without(shopping_cart[c], p)
            /\ Count(shopping_cart'[c], p) = 0
            /\ \A q \in Products \ {p} :
                  Count(shopping_cart'[c], q) = Count(shopping_cart[c], q)
            /\ Count(shopping_cart[c], p) = 0
                  => shopping_cart'[c] = shopping_cart[c]
            /\ RemoveAll(shopping_cart'[c], p) = shopping_cart'[c]
            /\ last'.removed = Count(shopping_cart[c], p)]_vars

\* A removal has just dropped one entry of a cart of three and left two
\* entries of different products.
C16_Witness ==
    /\ last.op = "remove_from_cart" /\ last.removed = 1
    /\ Len(shopping_cart[last.customer]) = 2
    /\ shopping_cart[last.customer][1] # shopping_cart[last.customer][2]
    /\ Count(shopping_cart[last.customer], last.product) = 0

\* Ids that no Product object has.
UnknownIds == {0, 99}

\* The products at a set of places of the catalog, in catalog order: the
\* i-th of them is at the place that has i of the places up to it.
EntriesAt(places) ==
    [i \in 1..Cardinality(places) |->
        catalog[CHOOSE j \in places :
                   Cardinality({k \in places : k <= j}) = i]]

\* C17: check_stock(id) is truthy if and only if the catalog holds a product
\* with that id whose stock is > 0 (falsy, without failing, for unknown
\* ids), and get_available_products is exactly the catalog entries with
\* stock > 0, in catalog order (a product the catalog holds twice is
\* returned twice).
C17_StockQueriesAgreeWithCatalog ==
    /\ \A id \in Products \cup UnknownIds :
          check_stock(id) <=>
             \E j \in DOMAIN catalog :
                catalog[j] = id /\ stock[catalog[j]] > 0
    /\ get_available_products =
          EntriesAt({j \in DOMAIN catalog : stock[catalog[j]] > 0})

\* The catalog holds a sold-out product before one that is in stock and
\* holds twice, and a product with stock that is not in the catalog exists.
C17_Witness ==
    /\ \E i, k \in DOMAIN get_available_products :
          i < k /\ get_available_products[i] = get_available_products[k]
    /\ \E j \in DOMAIN catalog :
          /\ stock[catalog[j]] <= 0
          /\ \E k \in DOMAIN catalog : j < k /\ stock[catalog[k]] > 0
    /\ \E p \in Products : ~ InCatalog(p) /\ stock[p] > 0 /\ ~ check_stock(p)

\* Number of entries of a product over the product lists of a ledger.
RECURSIVE SoldUnits(_, _)
SoldUnits(ledger, p) ==
    IF ledger = <<>> THEN 0
    ELSE Count(Head(ledger).products, p) + SoldUnits(Tail(ledger), p)

\* C18: for every product, initial stock minus current stock equals the
\* number of occurrences of the product over the product lists of all
\* orders of the ledger.
C18_StockConservation ==
    \A p \in Products : InitStock[p] - stock[p] = SoldUnits(orders, p)

\* Two units of a product have been sold, in two orders.
C18_Witness ==
    \E p \in Products :
       /\ stock[p] = InitStock[p] - 2
       /\ \E i, j \in DOMAIN orders :
             i < j /\ Count(orders[i].products, p) = 1
                   /\ Count(orders[j].products, p) = 1

\* Sum of total_amount over the orders of a customer, added in ledger order.
RECURSIVE SpentBy(_, _)
SpentBy(ledger, c) ==
    IF ledger = <<>> THEN Zero
    ELSE LET n == Len(ledger)
             before == SpentBy(SubSeq(ledger, 1, n - 1), c)
         IN  IF ledger[n].customer_id = c
             THEN FAdd(before, ledger[n].total_amount)
             ELSE before

\* Sum over the customers 1..n of initial budget minus current budget.
RECURSIVE BudgetSpent(_)
BudgetSpent(n) ==
    IF n = 0 THEN Zero
    ELSE FAdd(BudgetSpent(n - 1), FSub(init_budget[n], budget[n]))

\* C19: for every customer, initial budget minus current budget equals the
\* sum of total_amount over the customer's orders, and the total revenue
\* equals the sum over the customers of the budget spent.
\* The amounts are floats and a float difference is rounded: a budget of
\* 150.0 that paid 49.99 is 100.00999999999999, and 150.0 less that is
\* 49.99000000000001, so this is violated.
C19_MoneyConservation ==
    /\ \A c \in Customers :
          FSub(init_budget[c], budget[c]) = SpentBy(orders, c)
    /\ total_revenue(orders) = BudgetSpent(Cardinality(Customers))

\* The product lists of a customer's orders, concatenated in ledger order.
RECURSIVE BoughtBy(_, _)
BoughtBy(ledger, c) ==
    IF ledger = <<>> THEN <<>>
    ELSE (IF Head(ledger).customer_id = c THEN Head(ledger).products
          ELSE <<>>) \o BoughtBy(Tail(ledger), c)

\* C20: each customer's purchase history is append-only and equals the
\* concatenation, in ledger order, of the product lists of the customer's
\* orders.
C20_HistoryIsOrdersConcatenated ==
    /\ [](\A c \in Customers :
            purchase_history[c] = BoughtBy(orders, c))
    /\ [][\A c \in Customers :
            /\ Len(purchase_history'[c]) >= Len(purchase_history[c])
            /\ SubSeq(purchase_history'[c], 1, Len(purchase_history[c]))
                  = purchase_history[c]]_vars

\* A customer has two orders, with another customer's order between them.
C20_Witness ==
    \E i, j, k \in DOMAIN orders :
       /\ i < j /\ j < k
       /\ orders[i].customer_id = orders[k].customer_id
       /\ orders[j].customer_id # orders[i].customer_id
       /\ Len(purchase_history[orders[i].customer_id]) >= 2

\* C21: the ledger's ids are exactly 1..n for n orders, in ledger order, and
\* order_counter = n + 1; a failed purchase (empty cart, insufficient budget
\* or insufficient stock) consumes no id.
C21_OrderIdsGapFree ==
    /\ [](/\ \A i \in DOMAIN orders : orders[i].order_id = i
          /\ order_counter = Len(orders) + 1)
    /\ [][\A c \in Customers :
            (Purchased(c) /\ last'.ret = "False")
            => (order_counter' = order_counter /\ orders' = orders)]_vars

\* After two orders a purchase of a non-empty cart has just failed, and the
\* counter still names the third id.
C21_Witness ==
    /\ last.op = "make_purchase" /\ last.ret = "False"
    /\ shopping_cart[last.customer] # <<>>
    /\ Len(orders) = 2
    /\ orders[2].order_id = 2
    /\ order_counter = 3

\* C22: browse_products of a customer returns exactly the catalog entries
\* that have stock > 0, whose category is in the customer's preferences and
\* whose price is <= the customer's current budget (in catalog order, a
\* product the catalog holds twice being returned twice), and it changes no
\* state.
C22_BrowseFiltersAndReadsOnly ==
    [][\A c \in Customers :
         (last'.op = "browse_products" /\ last'.customer = c) =>
            LET wanted == {j \in DOMAIN catalog :
                              /\ stock[catalog[j]] > 0
                              /\ Category[catalog[j]] \in Preferences[c]
                              /\ ~ Exceeds(Price[catalog[j]], budget[c])}
            IN  /\ last'.listed = EntriesAt(wanted)
                /\ UNCHANGED state]_vars

\* A browse has just returned some product and left out an in-stock product
\* of the catalog that the budget covers, because its category is not one
\* the customer prefers.
C22_Witness ==
    /\ last.op = "browse_products"
    /\ last.listed # <<>>
    /\ \E q \in Products :
          /\ InCatalog(q) /\ stock[q] > 0
          /\ ~ Exceeds(Price[q], budget[last.customer])
          /\ Category[q] \notin Preferences[last.customer]
          /\ \A i \in DOMAIN last.listed : last.listed[i] # q

====
